---- MODULE Spec2Model ----
(***************************************************************************)
(* A model of src/lmql/runtime/bopenai/openai_api.py: the capacity         *)
(* semaphore shared by all token streams, the life of one stream           *)
(* (completion_api / chat_api as an async generator driven by a consumer), *)
(* the stall watchdog (chunk_timer inside `concurrent`), and the decode    *)
(* loop that reassembles `data: ` frames from arbitrarily split chunks.    *)
(*                                                                         *)
(* Text is a sequence of atoms, each atom a run of characters the code     *)
(* never looks inside:                                                     *)
(*    "NL"     a newline            "SP"   a space                         *)
(*    "data:"  the five characters  data:                                  *)
(*    "[DONE]" the six characters   [DONE]                                 *)
(*    "{"      the opening of a JSON object up to its value                *)
(*    "}"      the closing of that object                                  *)
(*    any other atom: the value of the object (see Contents)               *)
(* so "data: " is <<"data:", "SP">> and "\ndata: " is                      *)
(* <<"NL", "data:", "SP">>; a chunk boundary may fall between any two      *)
(* atoms.                                                                  *)
(***************************************************************************)
EXTENDS Integers, Sequences, FiniteSets, TLC

(***************************************************************************)
(* Bounds of the model.                                                    *)
(***************************************************************************)
\* Most data frames of a response body explored by SpecDecode.
MaxFrames == 2
\* Most whitespace atoms that follow the sentinel frame in a body.
MaxTrail == 2
\* Capacity.total, scaled down (32000 in the source).
Total == 2

Streams == {"s1", "s2"}

(***************************************************************************)
(* Python's str operations on atom sequences.                              *)
(***************************************************************************)
Whitespace == {"NL", "SP"}

\* "data: "
DataPrefix == <<"data:", "SP">>

\* "\ndata: "
Delimiter == <<"NL", "data:", "SP">>

\* "[DONE]"
Sentinel == <<"[DONE]">>

SetMin(S) == CHOOSE x \in S : \A y \in S : x <= y

SetMax(S) == CHOOSE x \in S : \A y \in S : x >= y

\* s.strip()
Strip(s) ==
    LET keep == {i \in 1..Len(s) : s[i] \notin Whitespace}
    IN  IF keep = {} THEN <<>> ELSE SubSeq(s, SetMin(keep), SetMax(keep))

\* the positions at which sub occurs in s
Occurrences(s, sub) ==
    {i \in 1..(Len(s) - Len(sub) + 1) : SubSeq(s, i, i + Len(sub) - 1) = sub}

\* sub in s
Contains(s, sub) == Occurrences(s, sub) # {}

\* s.startswith(p)
StartsWith(s, p) == Len(s) >= Len(p) /\ SubSeq(s, 1, Len(p)) = p

\* s.endswith(p)
EndsWith(s, p) == Len(s) >= Len(p) /\ SubSeq(s, Len(s) - Len(p) + 1, Len(s)) = p

\* s.split(sep): the pieces between the non-overlapping occurrences of sep,
\* found left to right
RECURSIVE Split(_, _)
Split(s, sep) ==
    IF ~Contains(s, sep) THEN <<s>>
    ELSE LET i == SetMin(Occurrences(s, sep))
         IN  <<SubSeq(s, 1, i - 1)>> \o Split(SubSeq(s, i + Len(sep), Len(s)), sep)

\* sep.join(parts)
RECURSIVE Join(_, _)
Join(parts, sep) ==
    IF parts = <<>> THEN <<>>
    ELSE IF Len(parts) = 1 THEN parts[1]
    ELSE parts[1] \o sep \o Join(Tail(parts), sep)

\* while len(chunks[0]) == 0: chunks = chunks[1:]
\* (<<>> when every piece is empty: chunks[0] then raises IndexError)
RECURSIVE DropEmpty(_)
DropEmpty(chunks) ==
    IF chunks = <<>> THEN <<>>
    ELSE IF Len(chunks[1]) = 0 THEN DropEmpty(Tail(chunks))
    ELSE chunks

(***************************************************************************)
(* JSON payloads and error messages.                                       *)
(***************************************************************************)
\* Values of a frame's JSON object.  "A", "B": the choices of an ordinary
\* data event; "[DONE]": a data event whose text is [DONE]; "errRate",
\* "errInvalid": an `error` object, with the message given by Message.
DataContents == {"A", "B", "[DONE]"}

ErrorContents == {"errRate", "errInvalid"}

Contents == DataContents \cup ErrorContents

\* data["error"]["message"], as a sequence of words
Message(c) ==
    CASE c = "errRate" -> <<"Rate", "limit", "exceeded">>
      [] c = "errInvalid" -> <<"Invalid", "request">>
      [] OTHER -> <<>>

\* str.lower() of one word
LowerWord(w) ==
    CASE w = "Rate" -> "rate"
      [] w = "Invalid" -> "invalid"
      [] OTHER -> w

\* message.lower()
Lower(msg) == [i \in 1..Len(msg) |-> LowerWord(msg[i])]

\* json.loads(t): <<object>> for a JSON object (surrounding whitespace is
\* ignored), <<>> when it raises JSONDecodeError.  `normalized` is set once
\* chat_api has replaced the object's choices (their "delta" is gone).
JsonLoads(t) ==
    LET u == Strip(t)
    IN  IF Len(u) = 3 /\ u[1] = "{" /\ u[3] = "}" /\ u[2] \in Contents
        THEN <<[error |-> u[2] \in ErrorContents, value |-> u[2], normalized |-> FALSE]>>
        ELSE <<>>

\* "rate limit" in message.lower()
IsRateLimit(msg) == Contains(Lower(msg), <<"rate", "limit">>)

\* lines 419-422: the exception raised for an error payload
Classify(msg) ==
    IF IsRateLimit(msg) THEN "OpenAIRateLimitError" ELSE "OpenAIStreamError"

(***************************************************************************)
(* The decode loop of completion_api / chat_api on one stream.  A decoder  *)
(* is the generator's local state:                                         *)
(*   buf      current_chunk                                                *)
(*   is_done  is_done                                                      *)
(*   data     <<>> while `data` is unbound, else <<the last parsed object>>*)
(*   n_chunks n_chunks                                                     *)
(*   yielded  the values yielded to the consumer so far                    *)
(*   at       where the generator stands: "read" (awaiting the next chunk  *)
(*            in `async for`), "yield" (suspended at `yield data`), "post" *)
(*            (left the loop by break, about to run the code after it),    *)
(*            "end" (returned or raised)                                   *)
(*   out      how it ended: "normal" or the name of the exception          *)
(*   exit     "loop" when it ended inside the loop, "post" after it        *)
(***************************************************************************)
NewDecoder ==
    [buf |-> <<>>, is_done |-> FALSE, data |-> <<>>, n_chunks |-> 0,
     yielded |-> <<>>, at |-> "read", out |-> "running", exit |-> "none"]

Finish(d, how, where) == [d EXCEPT !.at = "end", !.out = how, !.exit = where]

\* what is left of decode state d once the generator has ended
Ended(d) ==
    [NewDecoder EXCEPT !.yielded = d.yielded, !.at = "end", !.out = d.out, !.exit = d.exit]

\* lines 383-385: a chunk is appended and is_done recomputed
Recv(d, chunk) ==
    LET b == d.buf \o chunk
    IN  [d EXCEPT !.buf = b, !.is_done = EndsWith(Strip(b), Sentinel)]

\* line 426 and the loop header: after the inner while, break or read on
AfterWhile(d) == [d EXCEPT !.at = IF d.is_done THEN "post" ELSE "read"]

\* lines 405-424 (completion_api), 273-324 (chat_api): one complete frame
ProcessFrame(d, frame, api) ==
    LET parsed == JsonLoads(frame)
        \* on JSONDecodeError `data` keeps what it was bound to, if anything
        data1 == IF parsed # <<>> THEN parsed ELSE d.data
        d1 == [d EXCEPT !.n_chunks = @ + 1, !.data = data1]
    IN  IF data1 = <<>> THEN Finish(d1, "UnboundLocalError", "loop")
        ELSE IF data1[1].error THEN Finish(d1, Classify(Message(data1[1].value)), "loop")
        ELSE IF api = "chat" /\ data1[1].normalized THEN Finish(d1, "KeyError", "loop")
        ELSE [d1 EXCEPT !.at = "yield",
                        !.yielded = Append(@, data1[1].value),
                        !.data = <<[data1[1] EXCEPT !.normalized = (api = "chat")]>>]

\* lines 387-426: the inner while loop, run until the generator suspends
\* (yield, or the next read), leaves the loop, returns or raises
RECURSIVE Drain(_, _)
Drain(d, api) ==
    IF ~Contains(d.buf, DataPrefix) THEN AfterWhile(d)
    ELSE LET chunks == DropEmpty(Split(d.buf, Delimiter))
         IN  IF chunks = <<>> THEN Finish(d, "IndexError", "loop")
             ELSE IF Len(chunks) = 1 THEN AfterWhile(d)
             ELSE LET complete_chunk == Strip(chunks[1])
                      frame == IF StartsWith(complete_chunk, DataPrefix)
                               THEN SubSeq(complete_chunk, Len(DataPrefix) + 1, Len(complete_chunk))
                               ELSE complete_chunk
                      d1 == [d EXCEPT !.buf = Join(Tail(chunks), Delimiter)]
                  IN  IF Len(Strip(frame)) = 0 THEN Drain(d1, api)
                      ELSE IF frame = Sentinel THEN Finish(d1, "normal", "loop")
                      ELSE ProcessFrame(d1, frame, api)

\* lines 430-442: the code after the loop (resp.close() is the caller's step)
PostLoop(d) ==
    LET residual == Strip(d.buf)
        last_message == JsonLoads(residual)
        message == IF last_message # <<>> /\ last_message[1].error
                   THEN Message(last_message[1].value) ELSE <<>>
    IN  IF residual = Sentinel THEN Finish(d, "normal", "post")
        ELSE IF last_message = <<>> THEN Finish(d, "OpenAIStreamError", "post")
        ELSE IF IsRateLimit(message) THEN Finish(d, "OpenAIRateLimitError", "post")
        ELSE IF last_message[1].error THEN Finish(d, "OpenAIStreamError", "post")
        ELSE Finish(d, "KeyError", "post")

\* The whole generator on a list of chunks, with a consumer that takes every
\* event and a source that closes after the last chunk.
RECURSIVE RunChunks(_, _, _)
RunChunks(d, chunks, api) ==
    IF d.at = "end" THEN d
    ELSE IF d.at = "yield" THEN RunChunks(Drain(d, api), chunks, api)
    ELSE IF d.at = "post" \/ chunks = <<>> THEN PostLoop(d)
    ELSE RunChunks(Drain(Recv(d, Head(chunks)), api), Tail(chunks), api)

(***************************************************************************)
(* Response bodies.                                                        *)
(***************************************************************************)
FrameKinds == Contents \cup {"bad"}

\* the text after "data: " of a frame of each kind; "bad" is cut-off JSON
Payload(k) == IF k = "bad" THEN <<"{", "A">> ELSE <<"{", k, "}">>

\* "data: <payload>\n\n"
FrameText(k) == DataPrefix \o Payload(k) \o <<"NL", "NL">>

RECURSIVE FramesText(_)
FramesText(ks) == IF ks = <<>> THEN <<>> ELSE FrameText(Head(ks)) \o FramesText(Tail(ks))

\* "data: [DONE]" followed by n whitespace atoms
SentinelText(n) == DataPrefix \o Sentinel \o [i \in 1..n |-> IF i = 3 THEN "SP" ELSE "NL"]

\* A response: its data frames, and how it ends: tail = -1 when the server
\* closes without a sentinel, else the number of whitespace atoms after it.
BodyText(r) ==
    FramesText(r.frames) \o (IF r.tail < 0 THEN <<>> ELSE SentinelText(r.tail))

FrameSeqs == UNION {[1..n -> FrameKinds] : n \in 0..MaxFrames}

Responses == [frames : FrameSeqs, tail : -1..MaxTrail]

(***************************************************************************)
(* The state.                                                              *)
(*   reserved  Capacity.reserved                                           *)
(*   pc        where each stream's generator stands: "new" (not started),  *)
(*             "echo" (chat_api suspended at the echo yield, line 185),    *)
(*             "acquire" (asleep in CapacitySemaphore.__aenter__, line 37),*)
(*             "post" (awaiting session.post), "read" (awaiting a chunk),  *)
(*             "yield" (suspended at `yield data`), "done"                 *)
(*   req       the request: api, num_prompts, max_tokens                   *)
(*   body, pos the response body and how much of it has been delivered     *)
(*   dec       the generator's decode state                                *)
(*   wd        the chunk_timer task: "none", "running", "raised" (it ended *)
(*             by raising), "cancelled"                                    *)
(*   stalled   time.time() - last_chunk_time > timeout                     *)
(*   fresh     a chunk has arrived from the network after last_chunk_time  *)
(*             was last set, and at most `timeout` ago                     *)
(*   closes    resp.close() calls issued on the stream's response          *)
(*   acquires, releases   completed __aenter__ / __aexit__ of the stream   *)
(*   outcome   how the generator ended, as its consumer sees it            *)
(*   call      the evaluation of one of the module's request-shaping and   *)
(*             normalisation functions on its own (see Idle)               *)
(***************************************************************************)
VARIABLES reserved, pc, req, body, pos, dec, wd, stalled, fresh, closes,
          acquires, releases, outcome, call

vars == <<reserved, pc, req, body, pos, dec, wd, stalled, fresh, closes,
          acquires, releases, outcome, call>>

Apis == {"chat", "completion"}

PromptCounts == {1, 2}

TokenLimits == {0, 1}

NoRequest == [api |-> "completion", num_prompts |-> 1, max_tokens |-> 0]

\* no function is being evaluated on its own
Idle == [fn |-> "none"]

\* num_prompts * max_tokens, the argument of CapacitySemaphore
Units(s) == req[s].num_prompts * req[s].max_tokens

\* no stream has started
NoStream ==
    /\ reserved = 0
    /\ pc = [s \in Streams |-> "new"]
    /\ req = [s \in Streams |-> NoRequest]
    /\ body = [s \in Streams |-> <<>>]
    /\ pos = [s \in Streams |-> 0]
    /\ dec = [s \in Streams |-> NewDecoder]
    /\ wd = [s \in Streams |-> "none"]
    /\ stalled = [s \in Streams |-> FALSE]
    /\ fresh = [s \in Streams |-> FALSE]
    /\ closes = [s \in Streams |-> 0]
    /\ acquires = [s \in Streams |-> 0]
    /\ releases = [s \in Streams |-> 0]
    /\ outcome = [s \in Streams |-> "running"]

Init == NoStream /\ call = Idle

(***************************************************************************)
(* CapacitySemaphore and the unwinding of the generator's context          *)
(* managers.                                                               *)
(***************************************************************************)
\* The admission test with > for >=: a stream is admitted at reserved = total.
MustWaitAbove(res) == res > Total

\* __aenter__ without a ceiling: every stream is admitted at once.
MustWaitNever(res) == FALSE

\* line 36: the admission test of __aenter__
MustWait(res) == res >= Total

\* The increment capped at the total, while the release gives back all units.
AcquireCapped(res, units) == IF res + units > Total THEN Total ELSE res + units

\* line 39: Capacity.reserved += self.capacity
Acquire(res, units) == res + units

\* __aexit__ that gives nothing back.
ReleaseNothing(res, units) == res

\* line 43: Capacity.reserved -= self.capacity
Release(res, units) == res - units

\* __exit__ without the cancel: the task is left as it is.
WdLeftRunning(s) == wd[s]

\* concurrent.__exit__ (line 54): task.cancel(), a no-op on a finished task
WdAfterExit(s) == IF wd[s] = "running" THEN "cancelled" ELSE wd[s]

\* The generator ends with `how` before `async with CapacitySemaphore` was
\* entered, or while __aenter__ was still waiting: no __aexit__ runs.
EndOutside(s, how) ==
    /\ pc' = [pc EXCEPT ![s] = "done"]
    /\ outcome' = [outcome EXCEPT ![s] = how]
    /\ UNCHANGED <<reserved, acquires, releases, wd, dec, pos, stalled, fresh, closes>>

\* The release bound to the success path: an exception leaves the block
\* without __aexit__.
EndInsideReleaseOnReturn(s, how, d) ==
    /\ pc' = [pc EXCEPT ![s] = "done"]
    /\ outcome' = [outcome EXCEPT ![s] = how]
    /\ wd' = [wd EXCEPT ![s] = WdAfterExit(s)]
    /\ reserved' = IF how = "normal" THEN Release(reserved, Units(s)) ELSE reserved
    /\ releases' = [releases EXCEPT ![s] = IF how = "normal" THEN @ + 1 ELSE @]
    /\ dec' = [dec EXCEPT ![s] = Ended(d)]
    /\ pos' = [pos EXCEPT ![s] = 0]
    /\ stalled' = [stalled EXCEPT ![s] = FALSE]
    /\ fresh' = [fresh EXCEPT ![s] = FALSE]
    /\ UNCHANGED acquires

\* The generator ends with `how` inside `async with CapacitySemaphore`
\* (return, exception, GeneratorExit or CancelledError): the context
\* managers unwind, innermost first: concurrent.__exit__ when the task was
\* started, then CapacitySemaphore.__aexit__.  The generator's locals are
\* gone: of its decode state d only what the consumer has seen is kept.
EndInside(s, how, d) ==
    /\ pc' = [pc EXCEPT ![s] = "done"]
    /\ outcome' = [outcome EXCEPT ![s] = how]
    /\ wd' = [wd EXCEPT ![s] = WdAfterExit(s)]
    /\ reserved' = Release(reserved, Units(s))
    /\ releases' = [releases EXCEPT ![s] = @ + 1]
    /\ dec' = [dec EXCEPT ![s] = Ended(d)]
    /\ pos' = [pos EXCEPT ![s] = 0]
    /\ stalled' = [stalled EXCEPT ![s] = FALSE]
    /\ fresh' = [fresh EXCEPT ![s] = FALSE]
    /\ UNCHANGED acquires

\* One pass of the loop of __aenter__ (lines 35-40) for a reservation of
\* `units` and, on admission, the code up to the next suspension point:
\* get_endpoint_and_headers (line 357) raises when the configuration is
\* incomplete, which unwinds through __aexit__; else session.post is awaited.
Aenter(s, units, config_ok) ==
    IF MustWait(reserved)
    THEN /\ pc' = [pc EXCEPT ![s] = "acquire"]
         /\ UNCHANGED <<reserved, acquires, releases, outcome>>
    ELSE /\ acquires' = [acquires EXCEPT ![s] = @ + 1]
         /\ IF config_ok
            THEN /\ reserved' = Acquire(reserved, units)
                 /\ pc' = [pc EXCEPT ![s] = "post"]
                 /\ UNCHANGED <<releases, outcome>>
            ELSE /\ reserved' = Release(Acquire(reserved, units), units)
                 /\ releases' = [releases EXCEPT ![s] = @ + 1]
                 /\ pc' = [pc EXCEPT ![s] = "done"]
                 /\ outcome' = [outcome EXCEPT ![s] = "ConfigurationError"]

(***************************************************************************)
(* The generator, from its first step to the open response.                *)
(***************************************************************************)
\* chat_api after the echo event (lines 187-217)
ChatProceed(s, r, config_ok) ==
    IF r.max_tokens = 0
    THEN /\ pc' = [pc EXCEPT ![s] = "done"]
         /\ outcome' = [outcome EXCEPT ![s] = "normal"]
         /\ UNCHANGED <<reserved, acquires, releases>>
    ELSE IF r.num_prompts # 1
    THEN /\ pc' = [pc EXCEPT ![s] = "done"]
         /\ outcome' = [outcome EXCEPT ![s] = "AssertionError"]
         /\ UNCHANGED <<reserved, acquires, releases>>
    ELSE Aenter(s, r.num_prompts * r.max_tokens, config_ok)

\* The consumer's first __anext__ on complete(**kwargs): the generator runs
\* to its first suspension point (lines 346-358, 159-224).
Start(s, r, echo, logit_bias, config_ok) ==
    /\ pc[s] = "new"
    /\ req' = [req EXCEPT ![s] = r]
    /\ IF r.api = "completion"
       THEN Aenter(s, r.num_prompts * r.max_tokens, config_ok)
       ELSE IF logit_bias
       THEN /\ pc' = [pc EXCEPT ![s] = "done"]
            /\ outcome' = [outcome EXCEPT ![s] = "AssertionError"]
            /\ UNCHANGED <<reserved, acquires, releases>>
       ELSE IF echo
       THEN /\ pc' = [pc EXCEPT ![s] = "echo"]
            /\ UNCHANGED <<reserved, acquires, releases, outcome>>
       ELSE ChatProceed(s, r, config_ok)
    /\ UNCHANGED <<body, pos, dec, wd, stalled, fresh, closes, call>>

\* The consumer asks for the event after the echo.
AfterEcho(s, config_ok) ==
    /\ pc[s] = "echo"
    /\ ChatProceed(s, req[s], config_ok)
    /\ UNCHANGED <<req, body, pos, dec, wd, stalled, fresh, closes, call>>

\* asyncio.sleep(0.5) of __aenter__ is over (line 37): the loop runs again.
Wake(s, config_ok) ==
    /\ pc[s] = "acquire"
    /\ Aenter(s, Units(s), config_ok)
    /\ UNCHANGED <<req, body, pos, dec, wd, stalled, fresh, closes, call>>

\* session.post answers with response body b (lines 362-382): the timing
\* counters are set, chunk_timer is started under `concurrent`, and the
\* generator awaits the first chunk.
PostAnswers(s, b) ==
    /\ pc[s] = "post"
    /\ pc' = [pc EXCEPT ![s] = "read"]
    /\ body' = [body EXCEPT ![s] = b]
    /\ pos' = [pos EXCEPT ![s] = 0]
    /\ dec' = [dec EXCEPT ![s] = NewDecoder]
    /\ wd' = [wd EXCEPT ![s] = "running"]
    /\ stalled' = [stalled EXCEPT ![s] = FALSE]
    /\ fresh' = [fresh EXCEPT ![s] = FALSE]
    /\ UNCHANGED <<reserved, req, closes, acquires, releases, outcome, call>>

\* session.post raises (the connection cannot be made).
PostFails(s) ==
    /\ pc[s] = "post"
    /\ EndInside(s, "ClientError", dec[s])
    /\ UNCHANGED <<req, body, closes, call>>

(***************************************************************************)
(* The decode loop as steps of the generator.                              *)
(***************************************************************************)
\* The generator has run from a suspension point to state d of its decode
\* loop: it suspends again, or ends.  Leaving the loop by break or by the end
\* of the source runs concurrent.__exit__, resp.close() (line 428) and the
\* code after the loop.
\* `k` is the number of atoms the step took from the network.
Settle(s, d, k) ==
    CASE d.at \in {"read", "yield"} ->
           /\ dec' = [dec EXCEPT ![s] = d]
           /\ pc' = [pc EXCEPT ![s] = d.at]
           /\ pos' = [pos EXCEPT ![s] = @ + k]
           \* line 410: last_chunk_time = time.time(), once per complete frame
           /\ stalled' = [stalled EXCEPT ![s] = IF d.n_chunks > dec[s].n_chunks THEN FALSE ELSE @]
           \* a chunk that completes no frame leaves last_chunk_time as it was
           /\ fresh' = [fresh EXCEPT ![s] = IF d.n_chunks > dec[s].n_chunks THEN FALSE
                                             ELSE IF k > 0 THEN TRUE ELSE @]
           /\ UNCHANGED <<reserved, wd, closes, acquires, releases, outcome>>
      [] d.at = "post" ->
           /\ closes' = [closes EXCEPT ![s] = @ + 1]
           /\ EndInside(s, PostLoop(d).out, PostLoop(d))
      [] d.at = "end" ->
           /\ closes' = closes
           /\ EndInside(s, d.out, d)

\* the undelivered part of the body
Rest(s) == SubSeq(body[s], pos[s] + 1, Len(body[s]))

\* resp.content.iter_any() delivers the next k atoms of the body.
ChunkArrives(s, k) ==
    /\ pc[s] = "read"
    /\ closes[s] = 0
    /\ k \in 1..Len(Rest(s))
    /\ Settle(s, Drain(Recv(dec[s], SubSeq(Rest(s), 1, k)), req[s].api), k)
    /\ UNCHANGED <<req, body, call>>

\* The server has sent the whole body and closes: `async for` ends.
SourceCloses(s) ==
    /\ pc[s] = "read"
    /\ closes[s] = 0
    /\ pos[s] = Len(body[s])
    /\ Settle(s, [dec[s] EXCEPT !.at = "post"], 0)
    /\ UNCHANGED <<req, body, call>>

\* The consumer asks for the next event: the generator resumes after
\* `yield data` at the head of the inner while.
Resume(s) ==
    /\ pc[s] = "yield"
    /\ Settle(s, Drain(dec[s], req[s].api), 0)
    /\ UNCHANGED <<req, body, call>>

\* The read of a response that chunk_timer has closed raises the
\* transport's connection error (aiohttp: ClientConnectionError).
ReadAfterClose(s) ==
    /\ pc[s] = "read"
    /\ closes[s] > 0
    /\ EndInside(s, "ClientError", dec[s])
    /\ UNCHANGED <<req, body, closes, call>>

(***************************************************************************)
(* The consumer abandons the stream.                                       *)
(***************************************************************************)
\* aclose() on a generator suspended at a yield: GeneratorExit is raised
\* there.
Close(s) ==
    /\ pc[s] \in {"echo", "yield"}
    /\ IF pc[s] = "echo"
       THEN EndOutside(s, "GeneratorExit")
       ELSE EndInside(s, "GeneratorExit", dec[s]) /\ UNCHANGED closes
    /\ UNCHANGED <<req, body, call>>

\* The consuming task is cancelled while the generator awaits: CancelledError
\* is raised at the await.
Cancel(s) ==
    /\ pc[s] \in {"acquire", "post", "read"}
    /\ IF pc[s] = "acquire"
       THEN EndOutside(s, "CancelledError")
       ELSE EndInside(s, "CancelledError", dec[s]) /\ UNCHANGED closes
    /\ UNCHANGED <<req, body, call>>

(***************************************************************************)
(* The stall watchdog (chunk_timer, lines 368-379).                        *)
(***************************************************************************)
\* More than `timeout` passes with no update of last_chunk_time.
Stall(s) ==
    /\ wd[s] = "running"
    /\ ~stalled[s]
    /\ stalled' = [stalled EXCEPT ![s] = TRUE]
    /\ UNCHANGED <<reserved, pc, req, body, pos, dec, wd, fresh, closes, acquires, releases, outcome, call>>

\* More than `timeout` passes after the last chunk arrived.  That chunk
\* arrived after last_chunk_time was set, so last_chunk_time is older still.
Expire(s) ==
    /\ wd[s] = "running"
    /\ stalled[s]
    /\ fresh[s]
    /\ fresh' = [fresh EXCEPT ![s] = FALSE]
    /\ UNCHANGED <<reserved, pc, req, body, pos, dec, wd, stalled, closes, acquires, releases, outcome, call>>

\* chunk_timer wakes and finds current_chunk_time > timeout: it closes the
\* response and raises inside its own task, which ends; nothing awaits the
\* task, so the exception stays in it.
WatchdogFires(s) ==
    /\ wd[s] = "running"
    /\ stalled[s]
    /\ closes' = [closes EXCEPT ![s] = @ + 1]
    /\ wd' = [wd EXCEPT ![s] = "raised"]
    /\ UNCHANGED <<reserved, pc, req, body, pos, dec, stalled, fresh, acquires, releases, outcome, call>>

(***************************************************************************)
(* Spec: concurrent streams.  The server flushes whole events: a chunk     *)
(* ends at the end of a frame or of the body.                              *)
(***************************************************************************)
Requests == [api : Apis, num_prompts : PromptCounts, max_tokens : TokenLimits]

SpecResponses ==
    { [frames |-> <<"A">>, tail |-> 2],
      [frames |-> <<"errRate">>, tail |-> 2],
      [frames |-> <<"A", "B">>, tail |-> -1],
      [frames |-> <<>>, tail |-> -1] }

FrameCuts(s) ==
    {k \in 1..Len(Rest(s)) :
        \/ k = Len(Rest(s))
        \/ k >= 2 /\ Rest(s)[k] = "NL" /\ Rest(s)[k - 1] = "NL" /\ Rest(s)[k + 1] = "data:"}

Next ==
    \E s \in Streams :
        \/ \E r \in Requests, echo \in BOOLEAN, logit_bias \in BOOLEAN, ok \in BOOLEAN :
               Start(s, r, echo, logit_bias, ok)
        \/ \E ok \in BOOLEAN : AfterEcho(s, ok)
        \/ \E ok \in BOOLEAN : Wake(s, ok)
        \/ \E r \in SpecResponses : PostAnswers(s, BodyText(r))
        \/ PostFails(s)
        \/ \E k \in FrameCuts(s) : ChunkArrives(s, k)
        \/ SourceCloses(s)
        \/ Resume(s)
        \/ ReadAfterClose(s)
        \/ Close(s)
        \/ Cancel(s)
        \/ Stall(s)
        \/ Expire(s)
        \/ WatchdogFires(s)

Spec == Init /\ [][Next]_vars

(***************************************************************************)
(* SpecDecode: one stream, its response open, decoding any response of     *)
(* Responses delivered in chunks cut anywhere, to a consumer that takes    *)
(* every event.                                                            *)
(***************************************************************************)
OpenRequest(api) == [api |-> api, num_prompts |-> 1, max_tokens |-> 1]

InitDecode ==
    \E api \in Apis, r \in Responses :
        /\ reserved = 1
        /\ pc = [s \in Streams |-> IF s = "s1" THEN "read" ELSE "new"]
        /\ req = [s \in Streams |-> IF s = "s1" THEN OpenRequest(api) ELSE NoRequest]
        /\ body = [s \in Streams |-> IF s = "s1" THEN BodyText(r) ELSE <<>>]
        /\ pos = [s \in Streams |-> 0]
        /\ dec = [s \in Streams |-> NewDecoder]
        /\ wd = [s \in Streams |-> IF s = "s1" THEN "running" ELSE "none"]
        /\ stalled = [s \in Streams |-> FALSE]
        /\ fresh = [s \in Streams |-> FALSE]
        /\ closes = [s \in Streams |-> 0]
        /\ acquires = [s \in Streams |-> IF s = "s1" THEN 1 ELSE 0]
        /\ releases = [s \in Streams |-> 0]
        /\ outcome = [s \in Streams |-> "running"]
        /\ call = Idle

NextDecode ==
    \/ \E k \in 1..Len(Rest("s1")) : ChunkArrives("s1", k)
    \/ SourceCloses("s1")
    \/ Resume("s1")

SpecDecode == InitDecode /\ [][NextDecode]_vars

(***************************************************************************)
(* SpecShape: chat request shaping on its own.  A prompt is a sequence of  *)
(* atoms: runs of text ("A", "B") and role markers, each marker one match  *)
(* of the pattern <lmql:(.*?)\/> of tagged_segments.                       *)
(***************************************************************************)
\* Most atoms of a prompt.
MaxPrompt == 4

TextAtoms == {"A", "B"}

Markers == {"<lmql:system/>", "<lmql:assistant/>", "<lmql:user/>", "<lmql:tool/>"}

Prompts == UNION {[1..n -> TextAtoms \cup Markers] : n \in 0..MaxPrompt}

\* m.group(1) of a match
Group1(m) ==
    CASE m = "<lmql:system/>" -> "system"
      [] m = "<lmql:assistant/>" -> "assistant"
      [] m = "<lmql:user/>" -> "user"
      [] OTHER -> "tool"

\* The loop of tagged_segments from `offset` on (lines 86-90), then the last
\* segment (line 91).  `offset` counts the atoms before the position.
RECURSIVE tagged_segments_from(_, _, _, _)
tagged_segments_from(s, offset, current_tag, segments) ==
    LET later == {i \in (offset + 1)..Len(s) : s[i] \in Markers}
    IN  IF later = {}
        THEN Append(segments, [tag |-> current_tag, text |-> SubSeq(s, offset + 1, Len(s))])
        ELSE LET m == SetMin(later)
             IN  tagged_segments_from(s, m, Group1(s[m]),
                     IF (m - 1) - offset > 0
                     THEN Append(segments, [tag |-> current_tag, text |-> SubSeq(s, offset + 1, m - 1)])
                     ELSE segments)

\* tagged_segments(s), lines 81-92; the tag None is "None"
tagged_segments(s) == tagged_segments_from(s, 0, "None", <<>>)

\* lines 194-205: the role of a segment
Role(tag) ==
    CASE tag = "system" -> "system"
      [] tag = "assistant" -> "assistant"
      [] OTHER -> "user"

\* lines 192-210: one message per segment
ChatMessages(segments) ==
    [i \in 1..Len(segments) |-> [role |-> Role(segments[i].tag), content |-> segments[i].text]]

InitShape ==
    /\ NoStream
    /\ \E p \in Prompts :
           call = [fn |-> "chat_api.messages", at |-> "prompt", prompt |-> p, segments |-> <<>>, messages |-> <<>>]

streamvars == <<reserved, pc, req, body, pos, dec, wd, stalled, fresh, closes,
                acquires, releases, outcome>>

\* line 193: tagged_segments(kwargs["prompt"][0])
Segment ==
    /\ call.fn = "chat_api.messages"
    /\ call.at = "prompt"
    /\ call' = [call EXCEPT !.at = "segments", !.segments = tagged_segments(call.prompt)]
    /\ UNCHANGED streamvars

\* lines 192-213: kwargs["messages"] = messages
Shape ==
    /\ call.fn = "chat_api.messages"
    /\ call.at = "segments"
    /\ call' = [call EXCEPT !.at = "messages", !.messages = ChatMessages(call.segments)]
    /\ UNCHANGED streamvars

NextShape == Segment \/ Shape

SpecShape == InitShape /\ [][NextShape]_vars

(***************************************************************************)
(* SpecEndpoint: get_endpoint_and_headers on its own.  An endpoint is a    *)
(* sequence of atoms ("azure:", "http", "https", "://", "host"); the       *)
(* optional api_config["endpoint"] is <<>> for None and <<e>> for the      *)
(* string e.                                                               *)
(***************************************************************************)
\* Most atoms of an endpoint.
MaxEndpoint == 3

EndpointAtoms == {"azure:", "http", "https", "://", "host"}

Endpoints == UNION {[1..n -> EndpointAtoms] : n \in 0..MaxEndpoint}

\* What the call reads: api_config["endpoint"]; OPENAI_API_TYPE; whether an
\* azure key is given (api_config or environment); whether
\* AZURE_OPENAI_<MODEL>_ENDPOINT is set; whether the model is a chat model;
\* whether lmql.runtime.openai_secret can be imported.
Configs ==
    [endpoint : {<<>>} \cup {<<e>> : e \in Endpoints},
     api_type : {"openai", "azure"},
     azure_key : BOOLEAN,
     azure_env_endpoint : BOOLEAN,
     chat : BOOLEAN,
     secret : BOOLEAN]

Resolved(url, headers) == [url |-> url, headers |-> headers, error |-> "none"]

Unresolved(error) == [url |-> <<>>, headers |-> {}, error |-> error]

\* get_azure_config (lines 95-125): <<result>>, or <<>> for None
get_azure_config(c) ==
    IF c.endpoint # <<>> /\ StartsWith(c.endpoint[1], <<"azure:">>)
    THEN IF c.azure_key
         THEN <<Resolved(<<"https:">> \o Tail(c.endpoint[1]), {"Content-Type", "api-key"})>>
         ELSE <<Unresolved("AssertionError")>>
    ELSE IF c.api_type = "azure"
    THEN IF ~c.azure_env_endpoint THEN <<Unresolved("KeyError")>>
         ELSE IF ~c.azure_key THEN <<Unresolved("AssertionError")>>
         ELSE <<Resolved(<<"https", "://", "azure-host">>, {"Content-Type", "api-key"})>>
    ELSE <<>>

\* get_endpoint_and_headers (lines 127-154)
get_endpoint_and_headers(c) ==
    LET azure_config == get_azure_config(c)
    IN  IF azure_config # <<>> THEN azure_config[1]
        ELSE IF c.endpoint # <<>>
        THEN LET endpoint == IF ~EndsWith(c.endpoint[1], <<"http">>)
                             THEN <<"http", "://">> \o c.endpoint[1]
                             ELSE c.endpoint[1]
             IN  Resolved(endpoint \o <<"/completions">>, {"Content-Type"})
        ELSE IF ~c.secret THEN Unresolved("ImportError")
        ELSE Resolved(<<"https", "://", "api.openai.com", IF c.chat THEN "/v1/chat/completions"
                                                          ELSE "/v1/completions">>,
                      {"Authorization", "Content-Type"})

InitEndpoint ==
    /\ NoStream
    /\ \E c \in Configs :
           call = [fn |-> "get_endpoint_and_headers", at |-> "args", config |-> c,
                   result |-> Unresolved("none")]

\* lines 223, 357: endpoint, headers = get_endpoint_and_headers(kwargs)
Resolve ==
    /\ call.fn = "get_endpoint_and_headers"
    /\ call.at = "args"
    /\ call' = [call EXCEPT !.at = "done", !.result = get_endpoint_and_headers(call.config)]
    /\ UNCHANGED streamvars

NextEndpoint == Resolve

SpecEndpoint == InitEndpoint /\ [][NextEndpoint]_vars

(***************************************************************************)
(* SpecDelta: chat_api's normalisation of the events of one stream on its  *)
(* own (lines 289-322).  Each event carries one choice; its delta is one   *)
(* of DeltaKinds: "end" is {}, "role" is {"role": "assistant"}, "empty" is *)
(* {"content": ""}, "A" and "B" are {"content": "A"}, {"content": "B"}.    *)
(***************************************************************************)
\* Most events of a stream.
MaxDeltas == 3

DeltaKinds == {"end", "role", "empty", "A", "B"}

DeltaSeqs == UNION {[1..n -> DeltaKinds] : n \in 0..MaxDeltas}

\* "content" in delta
HasContent(delta) == delta \in {"empty", "A", "B"}

\* delta["content"], as text
Content(delta) == IF delta = "empty" THEN <<>> ELSE <<delta>>

\* tokenize(text), lines 72-79: the tokens of a text, each the atoms it
\* spans; the byte-pair encoding joins a space with the word after it and
\* gives no token for the empty text.
RECURSIVE tokenize(_)
tokenize(text) ==
    IF text = <<>> THEN <<>>
    ELSE IF text[1] = "SP" /\ Len(text) >= 2 /\ text[2] # "SP"
    THEN <<SubSeq(text, 1, 2)>> \o tokenize(SubSeq(text, 3, Len(text)))
    ELSE <<SubSeq(text, 1, 1)>> \o tokenize(Tail(text))

\* lines 291-321: the choices appended for one choice of an event, and
\* received_text after it
NormalizeChoice(delta, received_text) ==
    IF ~HasContent(delta)
    THEN [choices |-> IF delta = "end" THEN <<[text |-> <<>>, tokens |-> <<>>]>> ELSE <<>>,
          received_text |-> received_text]
    ELSE LET text == Content(delta)
             tokens == tokenize((IF received_text = <<>> THEN <<"SP">> ELSE <<>>) \o text)
         IN  [choices |-> <<[text |-> text, tokens |-> tokens]>>,
              received_text |-> received_text \o text]

InitDelta ==
    /\ NoStream
    /\ \E ds \in DeltaSeqs :
           call = [fn |-> "chat_api.choices", deltas |-> ds, received_text |-> <<>>, events |-> <<>>]

\* lines 289-324: the next event is normalised and yielded
Normalize ==
    /\ call.fn = "chat_api.choices"
    /\ Len(call.events) < Len(call.deltas)
    /\ LET r == NormalizeChoice(call.deltas[Len(call.events) + 1], call.received_text)
       IN  call' = [call EXCEPT !.received_text = r.received_text,
                                !.events = Append(@, r.choices)]
    /\ UNCHANGED streamvars

NextDelta == Normalize

SpecDelta == InitDelta /\ [][NextDelta]_vars

(***************************************************************************)
(* SpecLive: the streams of Spec under fairness, with requests of 1 unit   *)
(* and of more units than Capacity.total.  The one fairness the code       *)
(* gives is that of the event loop: asyncio.sleep(0.5) in __aenter__ ends  *)
(* and the loop of lines 35-40 runs again (line 37).  Whether an admitted  *)
(* stream ends is up to its server and its consumer.                       *)
(***************************************************************************)
LiveRequests == [api : Apis, num_prompts : {1}, max_tokens : {1, Total + 1}]

LiveResponses ==
    { [frames |-> <<"A">>, tail |-> 0],
      [frames |-> <<>>, tail |-> -1] }

NextLive ==
    \E s \in Streams :
        \/ \E r \in LiveRequests, echo \in BOOLEAN, logit_bias \in BOOLEAN, ok \in BOOLEAN :
               Start(s, r, echo, logit_bias, ok)
        \/ \E ok \in BOOLEAN : AfterEcho(s, ok)
        \/ \E ok \in BOOLEAN : Wake(s, ok)
        \/ \E r \in LiveResponses : PostAnswers(s, BodyText(r))
        \/ PostFails(s)
        \/ \E k \in FrameCuts(s) : ChunkArrives(s, k)
        \/ SourceCloses(s)
        \/ Resume(s)
        \/ ReadAfterClose(s)
        \/ Close(s)
        \/ Cancel(s)
        \/ Stall(s)
        \/ Expire(s)
        \/ WatchdogFires(s)

SpecLive ==
    /\ Init
    /\ [][NextLive]_vars
    /\ \A s \in Streams : WF_vars(\E ok \in BOOLEAN : Wake(s, ok))

(***************************************************************************)
(* SpecExtract: the inner loop `while "data: " in current_chunk` (lines    *)
(* 387-426) on its own, started on any buffer made of up to MaxBuffer      *)
(* pieces of text, with a consumer that takes every event.                 *)
(***************************************************************************)
\* Most pieces of a buffer.
MaxBuffer == 4

\* "\ndata: ", "data: ", a JSON object, cut-off JSON, "[DONE]", "\n", " "
BufferPieces ==
    {Delimiter, DataPrefix, Payload("A"), <<"{">>, Sentinel, <<"NL">>, <<"SP">>}

Buffers == {Join(ps, <<>>) : ps \in UNION {[1..n -> BufferPieces] : n \in 0..MaxBuffer}}

InitExtract ==
    /\ NoStream
    /\ \E b \in Buffers, api \in Apis :
           call = [fn |-> "completion_api.extract", api |-> api, buffer |-> b,
                   d |-> [Recv(NewDecoder, b) EXCEPT !.at = "while"]]

\* The loop runs from its head, at first or after `yield data`, until the
\* generator suspends at a yield, leaves the loop, returns or raises.
Extract ==
    /\ call.fn = "completion_api.extract"
    /\ call.d.at \in {"while", "yield"}
    /\ call' = [call EXCEPT !.d = Drain(call.d, call.api)]
    /\ UNCHANGED streamvars

NextExtract == Extract

SpecExtract == InitExtract /\ [][NextExtract]_vars

(***************************************************************************)
(* Properties of the capacity semaphore and of a stream's life (Spec).     *)
(***************************************************************************)
Inside(s) == pc[s] \in {"post", "read", "yield"}

Done(s) == pc[s] = "done"

Errors ==
    {"OpenAIRateLimitError", "OpenAIStreamError", "KeyError", "UnboundLocalError",
     "IndexError", "ClientError", "ConfigurationError"}

RECURSIVE SumUnits(_)
SumUnits(S) ==
    IF S = {} THEN 0
    ELSE LET s == CHOOSE x \in S : TRUE IN Units(s) + SumUnits(S \ {s})

\* C1: for every stream, __aexit__ (the release) has run exactly once when
\* the stream has ended after a completed __aenter__ (the acquire), however it
\* ended (return after the sentinel or the end of the source, a raised
\* configuration, rate-limit or stream error, GeneratorExit, CancelledError);
\* it has not run while the stream is still inside the block; and it has run
\* zero times, then and ever, when the acquire never completed.
ReleaseOncePerAcquire ==
    \A s \in Streams :
        /\ acquires[s] \in {0, 1}
        /\ pc[s] \in {"new", "echo", "acquire"} => acquires[s] = 0 /\ releases[s] = 0
        /\ Inside(s) => acquires[s] = 1 /\ releases[s] = 0
        /\ Done(s) => releases[s] = acquires[s]

\* A stream that was cancelled while waiting in __aenter__ (no acquire, no
\* release) beside streams that raised, were closed at a yield, and returned
\* after their acquire (one release each).
ReleaseOncePerAcquireWitness ==
    \E s, t \in Streams :
        /\ Done(s) /\ outcome[s] = "CancelledError" /\ acquires[s] = 0 /\ releases[s] = 0
        /\ Done(t) /\ outcome[t] \in Errors /\ acquires[t] = 1 /\ releases[t] = 1

\* C2: Capacity.reserved is never negative and is the sum of the units of the
\* streams that are between their acquire and their release; when every
\* stream has ended it is 0.
ReservedIsSumOfHeld ==
    /\ reserved >= 0
    /\ reserved = SumUnits({s \in Streams : acquires[s] > releases[s]})
    /\ (\A s \in Streams : Done(s)) => reserved = 0

\* Two streams hold capacity at once, and more than Capacity.total of it.
ReservedIsSumOfHeldWitness ==
    /\ \A s \in Streams : Inside(s) /\ Units(s) > 0
    /\ reserved > Total

\* C3: a step in which a stream's __aenter__ completes starts in a state with
\* Capacity.reserved < Capacity.total, and when the stream goes on to hold the
\* capacity the same step leaves reserved at its old value plus the stream's
\* units: the test and the increment are one step, whatever the other streams
\* do in between the steps.
AdmissionIsAtomic ==
    [][\A s \in Streams :
          acquires'[s] = acquires[s] + 1 =>
              /\ reserved < Total
              /\ Inside(s)' => reserved' = reserved + req'[s].num_prompts * req'[s].max_tokens]_vars

\* One stream sleeps in __aenter__ because the other holds capacity at or
\* above the total.
AdmissionIsAtomicWitness ==
    \E s, t \in Streams :
        /\ pc[s] = "acquire"
        /\ Inside(t)
        /\ reserved >= Total

\* C6: when chunk_timer has found the stream stalled and raised, the stream
\* ends, for its consumer, with the stall error.
StallErrorIsOutcome ==
    \A s \in Streams : wd[s] = "raised" /\ Done(s) => outcome[s] = "StallError"

\* C7: over the life of a stream in which chunk_timer fired, resp.close() is
\* issued exactly once.
StalledResponseClosedOnce ==
    \A s \in Streams : wd[s] = "raised" /\ Done(s) => closes[s] = 1

\* the largest units value requested by any stream
LargestUnits == SetMax({Units(s) : s \in Streams})

\* C21: in every state Capacity.reserved is at most Capacity.total - 1 plus
\* the largest units value requested by any stream: it exceeds the total by
\* no more than the reservation of the stream admitted last below the
\* ceiling.
OverAdmissionBounded == reserved <= Total - 1 + LargestUnits

\* Both streams hold capacity, the second admitted at total - 1: reserved is
\* above the total and at the bound.
OverAdmissionBoundedWitness ==
    /\ \A s \in Streams : Inside(s)
    /\ reserved > Total
    /\ reserved = Total - 1 + LargestUnits

(***************************************************************************)
(* Properties of the decode loop (SpecDecode).                             *)
(***************************************************************************)
\* the response whose body stream s1 decodes
Response == CHOOSE r \in Responses : BodyText(r) = body["s1"]

Plain(frames) == \A i \in 1..Len(frames) : frames[i] \in {"A", "B"}

\* C4: a body of well-formed frames ending with the sentinel decodes to the
\* same events and the same outcome under every chunking: what the stream
\* gave when it has ended is what the same body gives as one chunk.
ChunkBoundaryIndependence ==
    (/\ Done("s1")
     /\ Response.tail >= 0
     /\ \A i \in 1..Len(Response.frames) : Response.frames[i] \in Contents)
    => LET whole == RunChunks(NewDecoder, <<body["s1"]>>, req["s1"].api)
       IN  /\ dec["s1"].yielded = whole.yielded
           /\ outcome["s1"] = whole.out

\* C5: a body of ordinary data frames (none, one or more) followed by the
\* sentinel frame and any whitespace ends normally.
SentinelEndsNormally ==
    Done("s1") /\ Response.tail >= 0 /\ Plain(Response.frames)
    => outcome["s1"] = "normal"

\* C8: a body whose first frame that is not an ordinary data frame is an error
\* frame ends with the exception its message selects: OpenAIRateLimitError
\* for "Rate limit exceeded", OpenAIStreamError for "Invalid request".
ErrorFrameClassified ==
    \A i \in 1..Len(Response.frames) :
        (/\ Done("s1")
         /\ Response.frames[i] \in ErrorContents
         /\ Plain(SubSeq(Response.frames, 1, i - 1)))
        => outcome["s1"] = Classify(Message(Response.frames[i]))

\* C9: in a body of ordinary data frames and malformed frames that ends with
\* the sentinel, the malformed frames are skipped: the stream ends normally
\* and has yielded the ordinary frames, each once, in order.
MalformedFrameSkipped ==
    (/\ Done("s1")
     /\ Response.tail >= 0
     /\ \A i \in 1..Len(Response.frames) : Response.frames[i] \in {"A", "B", "bad"}
     /\ \E i \in 1..Len(Response.frames) : Response.frames[i] = "bad")
    => /\ outcome["s1"] = "normal"
       /\ dec["s1"].yielded = SelectSeq(Response.frames, LAMBDA k : k # "bad")

\* C10: a stream that ended in the code after the loop ended normally, with
\* OpenAIRateLimitError or with OpenAIStreamError.
ResidualOutcomeClassified ==
    Done("s1") /\ dec["s1"].exit = "post"
    => outcome["s1"] \in {"normal", "OpenAIRateLimitError", "OpenAIStreamError"}

\* C11: a body of N data frames followed by the sentinel, delivered in any
\* chunking, has given exactly its N data events, each once and in the order
\* of the frames, when the stream has ended.
FramesYieldedInOrder ==
    (/\ Done("s1")
     /\ Response.tail >= 0
     /\ \A i \in 1..Len(Response.frames) : Response.frames[i] \in DataContents)
    => dec["s1"].yielded = Response.frames

(***************************************************************************)
(* Properties of chat request shaping (SpecShape).                         *)
(***************************************************************************)
\* C12: the messages built from a prompt hold no message with empty content;
\* the prompt <lmql:system/>A<lmql:user/>B gives [{system, A}, {user, B}],
\* and a prompt of text without markers gives [{user, the whole text}].
NoEmptyChatMessage ==
    call.fn = "chat_api.messages" /\ call.at = "messages"
    => /\ \A i \in 1..Len(call.messages) : call.messages[i].content # <<>>
       /\ call.prompt = <<"<lmql:system/>", "A", "<lmql:user/>", "B">>
          => call.messages = <<[role |-> "system", content |-> <<"A">>],
                               [role |-> "user", content |-> <<"B">>]>>
       /\ (call.prompt # <<>> /\ \A i \in 1..Len(call.prompt) : call.prompt[i] \in TextAtoms)
          => call.messages = <<[role |-> "user", content |-> call.prompt]>>

(***************************************************************************)
(* Properties of the order of a stream's first steps and of its watchdog   *)
(* (Spec).                                                                 *)
(***************************************************************************)
\* C13: a started stream whose request has max_tokens = 0, chat or
\* completion, is at the echo event or has ended, and has neither waited for
\* capacity, nor completed an acquire, nor issued its network request.
ZeroTokensNoRequest ==
    \A s \in Streams :
        pc[s] # "new" /\ req[s].max_tokens = 0
        => pc[s] \in {"echo", "done"} /\ acquires[s] = 0

\* C14: a started chat stream whose request carries more than one prompt has
\* ended in an error, without an event (the echo included), without an
\* acquire and without a network request, whatever its max_tokens and echo.
BatchedChatRejected ==
    \A s \in Streams :
        pc[s] # "new" /\ req[s].api = "chat" /\ req[s].num_prompts > 1
        => /\ pc[s] = "done"
           /\ outcome[s] = "AssertionError"
           /\ acquires[s] = 0

\* C16: a stream that has ended has no running chunk_timer, however it
\* ended, and from then on no resp.close() is issued on its response and its
\* chunk_timer does not change (it cannot raise any more).
WatchdogEndsWithStream ==
    /\ [](\A s \in Streams : Done(s) => wd[s] # "running")
    /\ [][\A s \in Streams : Done(s) => closes'[s] = closes[s] /\ wd'[s] = wd[s]]_vars

\* A stream abandoned by its consumer and a stream that returned after the
\* sentinel or after the source closed, each with its chunk_timer cancelled.
WatchdogEndsWithStreamWitness ==
    \E s, t \in Streams :
        /\ Done(s) /\ outcome[s] \in {"GeneratorExit", "CancelledError"} /\ wd[s] = "cancelled"
        /\ Done(t) /\ outcome[t] \in {"normal"} \cup Errors /\ wd[t] = "cancelled"

\* C18: when chunk_timer has closed the response and raised, more than
\* `timeout` had passed since the last chunk arrived from the network: no
\* chunk had arrived within the timeout.
WatchdogFiresOnRealStall ==
    \A s \in Streams : wd[s] = "raised" => ~fresh[s]

\* C19: a stream that failed on its configuration (a missing key or
\* endpoint) failed before any acquire: it reserved no capacity.
ConfigurationCheckedBeforeAcquire ==
    \A s \in Streams : outcome[s] = "ConfigurationError" => acquires[s] = 0

(***************************************************************************)
(* Properties of endpoint resolution (SpecEndpoint).                       *)
(***************************************************************************)
\* an endpoint that starts with a scheme: http:// or https://
HasScheme(e) == StartsWith(e, <<"http", "://">>) \/ StartsWith(e, <<"https", "://">>)

\* C15: for a plain custom endpoint (given, without the azure: tag, api type
\* not azure) the resolved URL is the endpoint, with http:// in front only
\* when it has no scheme, followed by /completions, and the headers carry no
\* authorization.
PlainEndpointNormalized ==
    (/\ call.fn = "get_endpoint_and_headers"
     /\ call.at = "done"
     /\ call.config.endpoint # <<>>
     /\ ~StartsWith(call.config.endpoint[1], <<"azure:">>)
     /\ call.config.api_type # "azure")
    => LET e == call.config.endpoint[1]
       IN  /\ call.result.error = "none"
           /\ call.result.url = (IF HasScheme(e) THEN e ELSE <<"http", "://">> \o e) \o <<"/completions">>
           /\ call.result.headers \cap {"Authorization", "api-key"} = {}

(***************************************************************************)
(* Properties of chat normalisation (SpecDelta).                           *)
(***************************************************************************)
\* the choice of event i was tokenized with the space in front
Prefixed(i) ==
    /\ call.events[i] # <<>>
    /\ call.events[i][1].tokens # <<>>
    /\ call.events[i][1].tokens[1][1] = "SP"

\* C20: of the events normalised so far, the one tokenized with the leading
\* space is the first whose delta has non-empty content and no other, and an
\* event whose delta has empty content has a choice with no tokens.
SpacePrefixOnFirstText ==
    call.fn = "chat_api.choices"
    => LET texts == {i \in 1..Len(call.events) : call.deltas[i] \in {"A", "B"}}
       IN  \A i \in 1..Len(call.events) :
               /\ Prefixed(i) <=> (texts # {} /\ i = SetMin(texts))
               /\ call.deltas[i] = "empty"
                  => call.events[i] # <<>> /\ call.events[i][1].tokens = <<>>

(***************************************************************************)
(* Properties of admission under fairness (SpecLive).                      *)
(***************************************************************************)
\* C17: when every admitted stream eventually ends, a stream that waits in
\* __aenter__ is eventually admitted (its acquire completes) unless its
\* consumer cancels it while it waits, also when its units exceed
\* Capacity.total; and a stream that ended without an acquire ended by
\* chat_api's early return or assertions or by its consumer, never by an
\* error of the semaphore.
WaitingStreamAdmitted ==
    /\ (\A t \in Streams : [](Inside(t) => <>Done(t)))
       => \A s \in Streams :
              [](pc[s] = "acquire" => <>(acquires[s] = 1 \/ outcome[s] = "CancelledError"))
    /\ [](\A s \in Streams :
             Done(s) /\ acquires[s] = 0
             => outcome[s] \in {"normal", "AssertionError", "GeneratorExit", "CancelledError"})

\* A stream of more units than Capacity.total that was admitted while the
\* other, as large, is asleep in __aenter__.
WaitingStreamAdmittedWitness ==
    \E s, t \in Streams :
        /\ pc[s] = "acquire" /\ Units(s) > Total
        /\ Inside(t) /\ Units(t) > Total

(***************************************************************************)
(* Properties of frame extraction (SpecExtract).                           *)
(***************************************************************************)
\* C22: on every buffer the inner loop ends without an exception of the
\* extraction itself: the removal of leading empty fragments never runs out
\* of fragments (no IndexError), and each pass that extracted a frame has
\* left the buffer shorter than the pass found it.
ExtractionNeverFails ==
    /\ [](call.fn = "completion_api.extract" => call.d.out # "IndexError")
    /\ [][call.fn = "completion_api.extract" /\ call'.d.at = "yield"
          => Len(call'.d.buf) < Len(call.d.buf)]_vars

====
